---------------------------- MODULE Spec2Model ----------------------------
(***************************************************************************)
(* Model of claudeAPILayer: the evolution orchestrator (api/routes/       *)
(* evolve.py) and the Claude CLI client (core/claude_client.py).          *)
(*                                                                         *)
(* Coroutines run on one asyncio event loop, so every action below is the *)
(* code one coroutine executes between two suspension points (awaits).    *)
(***************************************************************************)
EXTENDS Integers, Sequences, FiniteSets, TLC

(***************************************************************************)
(* Bounds of the model.                                                    *)
(***************************************************************************)
MaxTasks == 2
MaxIter == 2
MaxOddReplies == 1
MaxReads == 1
MaxLines == 3
MaxProbes == 4

\* the concurrent requests on one session
MaxChats == 2

(***************************************************************************)
(* Python values.  None is a value of its own; a str is a sequence of     *)
(* one-character strings, so that upper() and the `in` operator are       *)
(* computed, not assumed.                                                  *)
(***************************************************************************)
None == "None"

LowerCase == <<"a","b","c","d","e","f","g","h","i","j","k","l","m",
               "n","o","p","q","r","s","t","u","v","w","x","y","z">>

UpperCase == <<"A","B","C","D","E","F","G","H","I","J","K","L","M",
               "N","O","P","Q","R","S","T","U","V","W","X","Y","Z">>

\* str.upper() on one (ASCII) character
UpperChar(c) ==
    IF \E i \in 1..26 : LowerCase[i] = c
    THEN UpperCase[CHOOSE i \in 1..26 : LowerCase[i] = c]
    ELSE c

\* str.upper()
Upper(s) == [i \in 1..Len(s) |-> UpperChar(s[i])]

\* needle in hay   (Python substring test)
Contains(needle, hay) ==
    \E i \in 0..(Len(hay) - Len(needle)) :
        SubSeq(hay, i + 1, i + Len(needle)) = needle

FAILED == <<"F","A","I","L","E","D">>

ERROR == <<"E","R","R","O","R">>

OBJECTIVE_COMPLETE ==
    <<"O","B","J","E","C","T","I","V","E","_","C","O","M","P","L","E","T","E">>

\* texts the agent may answer with
TxtOk == <<"o","k">>

TxtFailed == <<"2"," ","f","a","i","l","e","d">>

TxtError == <<"E","r","r","o","r",":"," ","x">>

TxtComplete == <<"9"," ">> \o OBJECTIVE_COMPLETE

TxtLowerComplete ==
    <<"o","b","j","e","c","t","i","v","e","_","c","o","m","p","l","e","t","e">>

OddTexts == {TxtFailed, TxtError, TxtComplete, TxtLowerComplete}

Texts == {TxtOk} \cup OddTexts

(***************************************************************************)
(* Optional[str] values that are not inspected (continuation tokens,      *)
(* prompts, commands) are strings, or None.                                *)
(***************************************************************************)
\* truthiness of an Optional[str]:  `if session_id:`
Truthy(v) == v # None /\ v # ""

\* `a or b`
Or(a, b) == IF Truthy(a) THEN a ELSE b

\* dict.get(key, default), of a dict given as a function on its keys
Get(d, key, default) == IF key \in DOMAIN d THEN d[key] ELSE default

\* the empty dict
EmptyDict == [key \in {} |-> None]

\* the session_id in the reply to the n-th query of task t
FreshTok(t, n) == "s" \o ToString(t) \o "." \o ToString(n)

(***************************************************************************)
(* TaskStatus (api/models/responses.py)                                    *)
(***************************************************************************)
PENDING == "pending"

RUNNING == "running"

COMPLETED == "completed"

FAILED_STATUS == "failed"

CANCELLED == "cancelled"

TaskStatus == {PENDING, RUNNING, COMPLETED, FAILED_STATUS, CANCELLED}

(***************************************************************************)
(* EvolveRequest: max_iterations (ge=1) and the optional test command.    *)
(***************************************************************************)
TaskIds == 1..MaxTasks

ChatIds == 1..MaxChats

TestCommands == {None, "", "pytest"}

EvolveRequests ==
    [max_iterations : 1..MaxIter, test_command : TestCommands, objective : {"objective"}]

VARIABLES
    tasks,      \* _tasks: task id -> task record
    requests,   \* the EvolveRequest each background run was given
    pc,         \* where run_evolution(task_id) is suspended
    loc,        \* run_evolution's local variables
    queries,    \* every claude_client.query call a run has made, in order
    results,    \* how each of these calls ended: "ok" or the exception raised
    tokens,     \* the session_id each of these calls returned, None if it raised
    agent,      \* how many odd replies and failures the agent has left
    reads,      \* number of status reads made
    response,   \* what the last get_evolution_status returned
    qpc,        \* where a call of ClaudeClient.query is suspended
    qreq,       \* its arguments
    qproc,      \* the agent process it spawned
    qres,       \* what it returned or raised
    spc,        \* where the generator of ClaudeClient.query_stream is suspended
    sreq,       \* its arguments
    sproc,      \* the agent process it spawned
    captured_session_id, \* its local variable of that name
    events,     \* the chunks it has yielded, in order
    nlines,     \* the number of lines it has read
    read_lines, \* the lines it has read, in order
    sexc,       \* the exception that left it, if any
    hpc,        \* where a call of ClaudeClient.health_check is suspended
    hproc,      \* the probe process it spawned
    hres,       \* what the calls of health_check have returned, in order
    session,    \* the row of one session in the sessions table
    messages,   \* the rows of the messages table, in order
    chat        \* each chat or send_message request: where it is, its locals

taskVars == <<tasks, requests, pc, loc, queries, results, tokens, agent, reads, response>>

queryVars == <<qpc, qreq, qproc, qres>>

streamVars == <<spc, sreq, sproc, captured_session_id, events, nlines, read_lines, sexc>>

healthVars == <<hpc, hproc, hres>>

chatVars == <<session, messages, chat>>

vars == <<taskVars, queryVars, streamVars, healthVars, chatVars>>

(***************************************************************************)
(* ClaudeClient.query, seen from its caller.  What the agent process does *)
(* is an outcome: it cannot be spawned, it outlives the timeout, or it    *)
(* exits with a return code, stdout and stderr.  stdout is what           *)
(* json.loads makes of it: an object, another JSON value, or no JSON.     *)
(***************************************************************************)
ClaudeResponse(result, session_id, token_usage) ==
    [result |-> result, session_id |-> session_id, token_usage |-> token_usage,
     tools_used |-> <<>>]

Return(v) == [ok |-> TRUE, value |-> v]

Raise(type, msg) == [ok |-> FALSE, exc |-> [type |-> type, msg |-> msg]]

\* an except clause that names RuntimeError only
OnlyRuntimeError == {"RuntimeError"}

\* the exception classes that `except Exception` catches
ExceptionTypes ==
    {"TimeoutError", "RuntimeError", "FileNotFoundError", "AttributeError",
     "UnicodeDecodeError"}

\* stdout that json.loads turns into a dict
JsonObject(data) == [form |-> "object", data |-> data]

\* stdout that is JSON but no object (a number, a string, a list, null)
JsonNonObject == [form |-> "nonobject"]

\* stdout that is not JSON
NotJson(raw) == [form |-> "invalid", raw |-> raw]

SpawnError == [kind |-> "spawn_error"]

Timeout == [kind |-> "timeout"]

Exit(returncode, stdout) == [kind |-> "exit", returncode |-> returncode, stdout |-> stdout]

\* an exit of which stderr is known too
ExitWith(returncode, stdout, stderr) ==
    [kind |-> "exit", returncode |-> returncode, stdout |-> stdout, stderr |-> stderr]

\* lines 150-154 with the exception of the deadline
FailureMessageAsTimeout(outcome) ==
    Raise("TimeoutError", "Claude CLI failed: " \o Or(Get(outcome, "stderr", ""), "Unknown error"))

\* lines 150-154: error_msg is stderr, or "Unknown error" when it is empty
FailureMessage(outcome) ==
    Raise("RuntimeError", "Claude CLI failed: " \o Or(Get(outcome, "stderr", ""), "Unknown error"))

\* lines 173-182 with the output tokens left out of the total
TokenUsageInputOnly(data) ==
    IF "usage" \in DOMAIN data
    THEN LET usage == data["usage"] IN
         [input_tokens |-> Get(usage, "input_tokens", 0),
          output_tokens |-> Get(usage, "output_tokens", 0),
          total_tokens |-> Get(usage, "input_tokens", 0),
          cache_read_tokens |-> Get(usage, "cache_read_input_tokens", 0),
          cache_creation_tokens |-> Get(usage, "cache_creation_input_tokens", 0)]
    ELSE EmptyDict

\* lines 173-182: the usage block of the reply
TokenUsage(data) ==
    IF "usage" \in DOMAIN data
    THEN LET usage == data["usage"] IN
         [input_tokens |-> Get(usage, "input_tokens", 0),
          output_tokens |-> Get(usage, "output_tokens", 0),
          total_tokens |-> Get(usage, "input_tokens", 0) + Get(usage, "output_tokens", 0),
          cache_read_tokens |-> Get(usage, "cache_read_input_tokens", 0),
          cache_creation_tokens |-> Get(usage, "cache_creation_input_tokens", 0)]
    ELSE EmptyDict

\* lines 156-204: decode stdout of a process that exited 0
QueryParse(stdout, session_id) ==
    CASE stdout.form = "invalid" ->
            Return(ClaudeResponse(stdout.raw, Or(session_id, ""), EmptyDict))
      [] stdout.form = "nonobject" ->
            Raise("AttributeError", "object has no attribute 'get'")
      [] stdout.form = "object" ->
            Return(ClaudeResponse(
                Get(stdout.data, "result", <<>>),
                Get(stdout.data, "session_id", Or(session_id, "")),
                TokenUsage(stdout.data)))

\* lines 135-208: what query(session_id=..) returns or raises
QueryOutcome(outcome, session_id) ==
    CASE outcome.kind = "spawn_error" ->
            Raise("FileNotFoundError", "No such file or directory")
      [] outcome.kind = "timeout" ->
            Raise("TimeoutError", "Claude query timed out")
      [] outcome.kind = "exit" /\ outcome.returncode # 0 ->
            FailureMessage(outcome)
      [] outcome.kind = "exit" /\ outcome.returncode = 0 ->
            QueryParse(outcome.stdout, session_id)

(***************************************************************************)
(* The agent, as far as the orchestrator is concerned: the outcomes the   *)
(* n-th query of task t may have.  The usual reply is a JSON object with  *)
(* a plain text and a new session_id.  An odd reply has another text, or  *)
(* no session_id, or is no JSON; agent holds how many odd replies and how *)
(* many failures are left.                                                *)
(***************************************************************************)
OddReplies(t, n) ==
    {Exit(0, JsonObject([result |-> tx, session_id |-> FreshTok(t, n)])) : tx \in OddTexts}
    \cup {Exit(0, JsonObject([result |-> TxtOk])), Exit(0, NotJson(TxtOk))}

AgentOutcomes(t, n) ==
    {Exit(0, JsonObject([result |-> TxtOk, session_id |-> FreshTok(t, n)]))}
    \cup (IF agent.odd > 0 THEN OddReplies(t, n) ELSE {})
    \cup (IF agent.fail > 0
          THEN {SpawnError, Timeout, Exit(1, NotJson(<<>>)), Exit(0, JsonNonObject)}
          ELSE {})

\* the bookkeeping of the agent's odd replies and failures
AgentAfter(t, n, outcome) ==
    [odd |-> agent.odd - (IF outcome \in OddReplies(t, n) THEN 1 ELSE 0),
     fail |-> agent.fail - (IF outcome.kind # "exit" \/ outcome.returncode # 0
                                  \/ outcome.stdout.form = "nonobject" THEN 1 ELSE 0)]

(***************************************************************************)
(* Task records (start_evolution, lines 199-210)                           *)
(***************************************************************************)
NewTask(request) ==
    [status |-> PENDING,
     current_iteration |-> 0,
     max_iterations |-> request.max_iterations,
     objective |-> request.objective,
     changes |-> <<>>,
     test_results |-> <<>>,
     error |-> None,
     started_at |-> None,
     completed_at |-> None]

NoResponse == ClaudeResponse(<<>>, None, EmptyDict)

NoLocals ==
    [iteration |-> 0,
     analyze_response |-> NoResponse,
     implement_response |-> NoResponse,
     test_response |-> NoResponse,
     fix_response |-> NoResponse,
     evaluate_response |-> NoResponse]

\* no process has been spawned
NoProcess == [state |-> "none", argv |-> <<>>, cwd |-> None, returncode |-> None]

\* a row of the sessions table as create_session leaves it
\* (session_manager.py lines 23-45); last_accessed is the request that
\* set it last, 0 for none
SessionModel ==
    [claude_session_id |-> None,
     last_accessed |-> 0,
     input_tokens |-> 0,
     output_tokens |-> 0,
     total_tokens |-> 0,
     cache_read_tokens |-> 0,
     cache_creation_tokens |-> 0,
     message_count |-> 0]

\* a request that has not arrived
NoChat ==
    [pc |-> "idle", route |-> "none", claude_session_id |-> None,
     status_code |-> 0, response |-> NoResponse, loaded |-> SessionModel]

\* no call of query or query_stream has been made
ClientInit ==
    /\ qpc = "idle"
    /\ qreq = None
    /\ qproc = NoProcess
    /\ qres = None
    /\ spc = "idle"
    /\ sreq = None
    /\ sproc = NoProcess
    /\ captured_session_id = None
    /\ events = <<>>
    /\ nlines = 0
    /\ read_lines = <<>>
    /\ sexc = None
    /\ hpc = "idle"
    /\ hproc = NoProcess
    /\ hres = <<>>
    /\ session = SessionModel
    /\ messages = <<>>
    /\ chat = [r \in ChatIds |-> NoChat]

\* no status has been read yet
NoStatus == [status_code |-> 0]

Init ==
    /\ tasks = <<>>
    /\ requests = <<>>
    /\ pc = [t \in TaskIds |-> "none"]
    /\ loc = [t \in TaskIds |-> NoLocals]
    /\ queries = [t \in TaskIds |-> <<>>]
    /\ results = [t \in TaskIds |-> <<>>]
    /\ tokens = [t \in TaskIds |-> <<>>]
    /\ agent = [odd |-> MaxOddReplies, fail |-> 1]
    /\ reads = 0
    /\ response = NoStatus
    /\ ClientInit

\* an agent that gives one odd reply and fails one query at most
TasksInit ==
    /\ tasks = <<>>
    /\ requests = <<>>
    /\ pc = [t \in TaskIds |-> "none"]
    /\ loc = [t \in TaskIds |-> NoLocals]
    /\ queries = [t \in TaskIds |-> <<>>]
    /\ results = [t \in TaskIds |-> <<>>]
    /\ tokens = [t \in TaskIds |-> <<>>]
    /\ agent = [odd |-> 1, fail |-> 1]
    /\ reads = 0
    /\ response = NoStatus
    /\ ClientInit

(***************************************************************************)
(* run_evolution (api/routes/evolve.py, lines 23-181)                      *)
(***************************************************************************)
ReadOnlyTools == <<"Read", "Glob", "Grep">>

ImplementTools == <<"Read", "Edit", "Write">>

TestTools == <<"Bash">>

FixTools == <<"Read", "Edit", "Bash">>

\* line 154 with the tools of the fix query
EvaluateToolsOfFix == <<"Read", "Edit", "Bash">>

EvaluateTools == <<"Read">>

\* the call of lines 82-87 with the session_id argument left out
QueryNoSession(iteration, phase, session_id, allowed_tools, max_turns) ==
    [iteration |-> iteration, phase |-> phase, session_id |-> None,
     allowed_tools |-> allowed_tools, max_turns |-> max_turns]

\* one claude_client.query(...) call, as the orchestrator makes it
Query(iteration, phase, session_id, allowed_tools, max_turns) ==
    [iteration |-> iteration, phase |-> phase, session_id |-> session_id,
     allowed_tools |-> allowed_tools, max_turns |-> max_turns]

\* task["changes"].append({...}) with the number of the iteration to come
ChangeRecordOfNext(iteration, phase, result) ==
    [iteration |-> iteration + 1, phase |-> phase, result |-> result]

\* task["changes"].append({...})
ChangeRecord(iteration, phase, result) ==
    [iteration |-> iteration, phase |-> phase, result |-> result]

\* lines 112-116 with the iteration of the record fixed to the first
TestRecordOfFirst(iteration, result) == [iteration |-> 1, result |-> result]

\* task["test_results"].append({...})
TestRecord(iteration, result) == [iteration |-> iteration, result |-> result]

\* line 119 without the .upper() calls
TestsFailedCaseSensitive(result) ==
    Contains(FAILED, result) \/ Contains(ERROR, result)

\* line 119: the test report says the tests failed
TestsFailed(result) ==
    Contains(FAILED, Upper(result)) \/ Contains(ERROR, Upper(result))

\* line 166 with a comparison in place of the substring test
ObjectiveCompleteEquals(result) == result = OBJECTIVE_COMPLETE

\* line 166 with the case folded, as line 119 does
ObjectiveCompleteAnyCase(result) == Contains(OBJECTIVE_COMPLETE, Upper(result))

\* line 166: the evaluation says the objective is met
ObjectiveComplete(result) == Contains(OBJECTIVE_COMPLETE, result)

\* line 153: the token the evaluate query resumes
EvaluateSession(request, l) ==
    IF ~Truthy(request.test_command)
    THEN l.implement_response.session_id
    ELSE l.test_response.session_id

\* the query task t is waiting for, and the number of the token it may return
InFlight(t) == queries[t][Len(queries[t])]

\* the query started twice, as asyncio.gather of two calls would
AwaitTwice(t, q) ==
    /\ queries' = [queries EXCEPT ![t] = Append(Append(@, q), q)]
    /\ pc' = [pc EXCEPT ![t] = q.phase]

\* suspend run_evolution(t) in `await claude_client.query(...)`
Await(t, q) ==
    /\ queries' = [queries EXCEPT ![t] = Append(@, q)]
    /\ pc' = [pc EXCEPT ![t] = q.phase]

\* lines 173-175 without line 174
CompletedNoTimestamp(task) == [task EXCEPT !.status = COMPLETED]

\* lines 173-175: the loop is over
Completed(task) ==
    [task EXCEPT !.status = COMPLETED, !.completed_at = "utcnow"]

\* lines 177-181 without line 181
FailedNoTimestamp(task, exc) ==
    [task EXCEPT !.status = FAILED_STATUS, !.error = exc.msg]

\* lines 177-181 with the wrong member of TaskStatus
FailedAsCancelled(task, exc) ==
    [task EXCEPT !.status = CANCELLED, !.error = exc.msg, !.completed_at = "utcnow"]

\* lines 177-181 with the history of the task reset
FailedHistoryCleared(task, exc) ==
    [task EXCEPT !.status = FAILED_STATUS, !.error = exc.msg, !.completed_at = "utcnow",
                 !.changes = <<>>, !.test_results = <<>>]

\* lines 177-181: except Exception as e
Failed(task, exc) ==
    [task EXCEPT !.status = FAILED_STATUS, !.error = exc.msg, !.completed_at = "utcnow"]

\* the query run_evolution(t) awaited has returned or raised
Resume(t, r) ==
    /\ results' = [results EXCEPT ![t] = Append(@, IF r.ok THEN "ok" ELSE r.exc.type)]
    /\ tokens' = [tokens EXCEPT ![t] = Append(@, IF r.ok THEN r.value.session_id ELSE None)]

\* lines 177-181: an exception raised in the try block ends the run; one
\* that `except Exception` does not catch leaves run_evolution
Except(t, exc) ==
    /\ IF exc.type \in ExceptionTypes
       THEN /\ tasks' = [tasks EXCEPT ![t] = Failed(@, exc)]
            /\ pc' = [pc EXCEPT ![t] = "done"]
       ELSE /\ pc' = [pc EXCEPT ![t] = "raised"]
            /\ UNCHANGED tasks
    /\ UNCHANGED <<loc, queries>>

\* lines 41-66 with the iteration counter kept for the module, not per task
IterationStartShared(t, task, iteration) ==
    /\ tasks' = [x \in DOMAIN tasks |->
                    IF x = t THEN [task EXCEPT !.current_iteration = iteration]
                    ELSE [tasks[x] EXCEPT !.current_iteration = iteration]]
    /\ loc' = [loc EXCEPT ![t].iteration = iteration]
    /\ Await(t, Query(iteration, "analyze", None, ReadOnlyTools, 5))

\* lines 41-66 with the analyze query chained to the last evaluate query
IterationStartResumed(t, task, iteration) ==
    /\ tasks' = [tasks EXCEPT ![t] = [task EXCEPT !.current_iteration = iteration]]
    /\ loc' = [loc EXCEPT ![t].iteration = iteration]
    /\ Await(t, Query(iteration, "analyze", loc[t].evaluate_response.session_id,
                      ReadOnlyTools, 5))

\* lines 41-66: the head of the loop body, up to the analyze query
IterationStart(t, task, iteration) ==
    /\ tasks' = [tasks EXCEPT ![t] = [task EXCEPT !.current_iteration = iteration]]
    /\ loc' = [loc EXCEPT ![t].iteration = iteration]
    /\ Await(t, Query(iteration, "analyze", None, ReadOnlyTools, 5))

\* lines 139-156: the evaluate query
AwaitEvaluate(t, l) ==
    Await(t, Query(l.iteration, "evaluate", EvaluateSession(requests[t], l),
                   EvaluateTools, 3))

\* line 196 with ids that may be in use
uuid4_in_use == TaskIds

\* line 196: uuid.uuid4() draws an id that is not in use.  Ids are
\* interchangeable, so the model draws the least one.
uuid4 == {id \in TaskIds : id \notin DOMAIN tasks /\ \A x \in 1..(id - 1) : x \in DOMAIN tasks}

\* POST /evolve/iterate (lines 184-219): register the task, queue its run
start_evolution(request) ==
    \E task_id \in uuid4 :
        /\ tasks' = [x \in DOMAIN tasks \cup {task_id} |->
                        IF x = task_id THEN NewTask(request) ELSE tasks[x]]
        /\ requests' = [x \in DOMAIN requests \cup {task_id} |->
                        IF x = task_id THEN request ELSE requests[x]]
        /\ pc' = [pc EXCEPT ![task_id] = "queued"]
        /\ UNCHANGED <<loc, queries, results, tokens, agent, reads, response, queryVars, streamVars, healthVars, chatVars>>

\* lines 35-66: the background run starts and issues its first query
Begin(t) ==
    /\ pc[t] = "queued"
    /\ IterationStart(t, [tasks[t] EXCEPT !.status = RUNNING, !.started_at = "utcnow"], 1)
    /\ UNCHANGED <<requests, results, tokens, agent, reads, response, queryVars, streamVars, healthVars, chatVars>>

\* lines 62-87: the analyze query is over
AnalyzeDone(t) ==
    /\ pc[t] = "analyze"
    /\ \E outcome \in AgentOutcomes(t, Len(queries[t])) :
        LET r == QueryOutcome(outcome, InFlight(t).session_id)
            l == loc[t]
        IN  /\ agent' = AgentAfter(t, Len(queries[t]), outcome)
            /\ Resume(t, r)
            /\ IF r.ok
               THEN /\ tasks' = [tasks EXCEPT ![t].changes =
                            Append(@, ChangeRecord(l.iteration, "analyze", r.value.result))]
                    /\ loc' = [loc EXCEPT ![t].analyze_response = r.value]
                    /\ Await(t, Query(l.iteration, "implement", r.value.session_id,
                                      ImplementTools, 10))
               ELSE Except(t, r.exc)
    /\ UNCHANGED <<requests, reads, response, queryVars, streamVars, healthVars, chatVars>>

\* lines 82-110 and 139-156: the implement query is over
ImplementDone(t) ==
    /\ pc[t] = "implement"
    /\ \E outcome \in AgentOutcomes(t, Len(queries[t])) :
        LET r == QueryOutcome(outcome, InFlight(t).session_id)
            l == [loc[t] EXCEPT !.implement_response = r.value]
        IN  /\ agent' = AgentAfter(t, Len(queries[t]), outcome)
            /\ Resume(t, r)
            /\ IF r.ok
               THEN /\ tasks' = [tasks EXCEPT ![t].changes =
                            Append(@, ChangeRecord(l.iteration, "implement", r.value.result))]
                    /\ loc' = [loc EXCEPT ![t] = l]
                    /\ IF Truthy(requests[t].test_command)
                       THEN Await(t, Query(l.iteration, "test", r.value.session_id,
                                           TestTools, 3))
                       ELSE AwaitEvaluate(t, l)
               ELSE Except(t, r.exc)
    /\ UNCHANGED <<requests, reads, response, queryVars, streamVars, healthVars, chatVars>>

\* lines 105-130 and 139-156: the test query is over
TestDone(t) ==
    /\ pc[t] = "test"
    /\ \E outcome \in AgentOutcomes(t, Len(queries[t])) :
        LET r == QueryOutcome(outcome, InFlight(t).session_id)
            l == [loc[t] EXCEPT !.test_response = r.value]
        IN  /\ agent' = AgentAfter(t, Len(queries[t]), outcome)
            /\ Resume(t, r)
            /\ IF r.ok
               THEN /\ tasks' = [tasks EXCEPT ![t].test_results =
                            Append(@, TestRecord(l.iteration, r.value.result))]
                    /\ loc' = [loc EXCEPT ![t] = l]
                    /\ IF TestsFailed(r.value.result)
                       THEN Await(t, Query(l.iteration, "fix", r.value.session_id,
                                           FixTools, 10))
                       ELSE AwaitEvaluate(t, l)
               ELSE Except(t, r.exc)
    /\ UNCHANGED <<requests, reads, response, queryVars, streamVars, healthVars, chatVars>>

\* lines 125-156: the fix query is over
FixDone(t) ==
    /\ pc[t] = "fix"
    /\ \E outcome \in AgentOutcomes(t, Len(queries[t])) :
        LET r == QueryOutcome(outcome, InFlight(t).session_id)
            l == [loc[t] EXCEPT !.fix_response = r.value]
        IN  /\ agent' = AgentAfter(t, Len(queries[t]), outcome)
            /\ Resume(t, r)
            /\ IF r.ok
               THEN /\ tasks' = [tasks EXCEPT ![t].changes =
                            Append(@, ChangeRecord(l.iteration, "fix", r.value.result))]
                    /\ loc' = [loc EXCEPT ![t] = l]
                    /\ AwaitEvaluate(t, l)
               ELSE Except(t, r.exc)
    /\ UNCHANGED <<requests, reads, response, queryVars, streamVars, healthVars, chatVars>>

\* lines 151-175: the evaluate query is over
EvaluateDone(t) ==
    /\ pc[t] = "evaluate"
    /\ \E outcome \in AgentOutcomes(t, Len(queries[t])) :
        LET r == QueryOutcome(outcome, InFlight(t).session_id)
            l == loc[t]
            recorded == [tasks[t] EXCEPT !.changes =
                            Append(@, ChangeRecord(l.iteration, "evaluate", r.value.result))]
        IN  /\ agent' = AgentAfter(t, Len(queries[t]), outcome)
            /\ Resume(t, r)
            /\ IF r.ok
               THEN /\ loc' = [loc EXCEPT ![t].evaluate_response = r.value]
                    /\ UNCHANGED queries
                    /\ IF ObjectiveComplete(r.value.result)
                       THEN /\ tasks' = [tasks EXCEPT ![t] = Completed(recorded)]
                            /\ pc' = [pc EXCEPT ![t] = "done"]
                       ELSE /\ tasks' = [tasks EXCEPT ![t] = recorded]
                            /\ pc' = [pc EXCEPT ![t] = "sleep"]
               ELSE Except(t, r.exc)
    /\ UNCHANGED <<requests, reads, response, queryVars, streamVars, healthVars, chatVars>>

\* lines 171 and 40-66 with `while True` in place of the range
SleepDoneUnbounded(t) ==
    /\ pc[t] = "sleep"
    /\ IterationStart(t, tasks[t], loc[t].iteration + 1)
    /\ UNCHANGED <<requests, results, tokens, agent, reads, response, queryVars, streamVars, healthVars, chatVars>>

\* lines 171, 40-66 and 173-175: asyncio.sleep(1) is over
SleepDone(t) ==
    /\ pc[t] = "sleep"
    /\ IF loc[t].iteration + 1 <= requests[t].max_iterations
       THEN IterationStart(t, tasks[t], loc[t].iteration + 1)
       ELSE /\ tasks' = [tasks EXCEPT ![t] = Completed(@)]
            /\ pc' = [pc EXCEPT ![t] = "done"]
            /\ UNCHANGED <<loc, queries>>
    /\ UNCHANGED <<requests, results, tokens, agent, reads, response, queryVars, streamVars, healthVars, chatVars>>

\* lines 228-247: what GET /evolve/status/{task_id} answers in this state
EvolveStatusResponse(task_id) ==
    IF task_id \notin DOMAIN tasks
    THEN [status_code |-> 404, detail |-> task_id]
    ELSE [status_code |-> 200,
          task_id |-> task_id,
          status |-> tasks[task_id].status,
          current_iteration |-> tasks[task_id].current_iteration,
          max_iterations |-> tasks[task_id].max_iterations,
          objective |-> tasks[task_id].objective,
          changes |-> tasks[task_id].changes,
          test_results |-> tasks[task_id].test_results,
          error |-> tasks[task_id].error,
          started_at |-> tasks[task_id].started_at,
          completed_at |-> tasks[task_id].completed_at]

\* GET /evolve/status/{task_id} (lines 222-247)
get_evolution_status(task_id) ==
    /\ reads < MaxReads
    /\ reads' = reads + 1
    /\ response' = EvolveStatusResponse(task_id)
    /\ UNCHANGED <<tasks, requests, pc, loc, queries, results, tokens, agent, queryVars, streamVars, healthVars, chatVars>>

\* one step of the background run of task t
Run(t) ==
    \/ Begin(t)
    \/ AnalyzeDone(t)
    \/ ImplementDone(t)
    \/ TestDone(t)
    \/ FixDone(t)
    \/ EvaluateDone(t)
    \/ SleepDone(t)

\* Spec follows the run of one task, whatever the agent answers
Next ==
    \/ \E request \in EvolveRequests : tasks = <<>> /\ start_evolution(request)
    \/ \E t \in TaskIds : Run(t)

Spec == Init /\ [][Next]_vars

\* StatusSpec follows the run of one task while its status is read
StatusNext ==
    \/ \E request \in EvolveRequests : tasks = <<>> /\ start_evolution(request)
    \/ \E t \in TaskIds : Run(t)
    \/ \E task_id \in TaskIds : get_evolution_status(task_id)

StatusSpec == TasksInit /\ [][StatusNext]_vars

\* TasksSpec runs several tasks concurrently
TasksNext ==
    \/ \E request \in EvolveRequests : start_evolution(request)
    \/ \E t \in TaskIds : Run(t)

TasksSpec == TasksInit /\ [][TasksNext]_vars

\* requests for one iteration with a test command
RegistryRequests == {request \in EvolveRequests : request.max_iterations = 1 /\ request.test_command = "pytest"}

\* an agent that gives one odd reply and fails one query at most
RegistryInit ==
    /\ tasks = <<>>
    /\ requests = <<>>
    /\ pc = [t \in TaskIds |-> "none"]
    /\ loc = [t \in TaskIds |-> NoLocals]
    /\ queries = [t \in TaskIds |-> <<>>]
    /\ results = [t \in TaskIds |-> <<>>]
    /\ tokens = [t \in TaskIds |-> <<>>]
    /\ agent = [odd |-> 1, fail |-> 1]
    /\ reads = 0
    /\ response = NoStatus
    /\ ClientInit

\* RegistrySpec is the registry under load: tasks are created while
\* others run, and the runs interleave at every await
RegistryNext ==
    \/ \E request \in RegistryRequests : start_evolution(request)
    \/ \E t \in TaskIds : Run(t)

RegistrySpec == RegistryInit /\ [][RegistryNext]_vars

\* the event loop resumes every coroutine that can run, and every query
\* the agent was asked returns or raises
FairSpec == Init /\ [][Next]_vars /\ \A t \in TaskIds : WF_vars(Run(t))

(***************************************************************************)
(* ClaudeClient (src/core/claude_client.py): the command line, and the    *)
(* agent process as asyncio sees it.  A process is "running" until it     *)
(* dies, "exited" once it is dead but the event loop has not yet stored   *)
(* its return code, "reaped" once process.returncode is set, and "killed" *)
(* when process.kill() ended it.                                           *)
(***************************************************************************)
binary == "claude"

default_model == "claude-sonnet-4-20250514"

fallback_model == "claude-haiku-4-5-20251001"

RECURSIVE Join(_, _)
\* sep.join(words)
Join(words, sep) ==
    IF words = <<>> THEN ""
    ELSE IF Len(words) = 1 THEN words[1]
    ELSE words[1] \o sep \o Join(Tail(words), sep)

\* lines 56-94 with `if session_id is not None` at line 74
_build_command_is_not_none(prompt, session_id, allowed_tools, max_turns, system_prompt, working_directory, output_format, model) ==
    LET selected_model == Or(model, default_model) IN
    <<binary, "-p", prompt>>
    \o <<"--output-format", output_format>>
    \o (IF session_id # None THEN <<"--resume", session_id>> ELSE <<>>)
    \o (IF allowed_tools # <<>>
        THEN <<"--allowedTools", Join(allowed_tools, ",")>> ELSE <<>>)
    \o (IF Truthy(system_prompt)
        THEN <<"--append-system-prompt", system_prompt>> ELSE <<>>)
    \o (IF Truthy(selected_model) THEN <<"--model", selected_model>> ELSE <<>>)
    \o (IF Truthy(fallback_model)
        THEN <<"--fallback-model", fallback_model>> ELSE <<>>)

\* lines 56-94 with the turn limit passed on as --max-turns
_build_command_max_turns(prompt, session_id, allowed_tools, max_turns, system_prompt, working_directory, output_format, model) ==
    LET selected_model == Or(model, default_model) IN
    <<binary, "-p", prompt>>
    \o <<"--output-format", output_format>>
    \o <<"--max-turns", ToString(max_turns)>>
    \o (IF Truthy(session_id) THEN <<"--resume", session_id>> ELSE <<>>)
    \o (IF allowed_tools # <<>>
        THEN <<"--allowedTools", Join(allowed_tools, ",")>> ELSE <<>>)
    \o (IF Truthy(system_prompt)
        THEN <<"--append-system-prompt", system_prompt>> ELSE <<>>)
    \o (IF Truthy(selected_model) THEN <<"--model", selected_model>> ELSE <<>>)
    \o (IF Truthy(fallback_model)
        THEN <<"--fallback-model", fallback_model>> ELSE <<>>)

\* lines 56-94: max_turns and working_directory are accepted and not used
_build_command(prompt, session_id, allowed_tools, max_turns, system_prompt, working_directory, output_format, model) ==
    LET selected_model == Or(model, default_model) IN
    <<binary, "-p", prompt>>
    \o <<"--output-format", output_format>>
    \o (IF Truthy(session_id) THEN <<"--resume", session_id>> ELSE <<>>)
    \o (IF allowed_tools # <<>>
        THEN <<"--allowedTools", Join(allowed_tools, ",")>> ELSE <<>>)
    \o (IF Truthy(system_prompt)
        THEN <<"--append-system-prompt", system_prompt>> ELSE <<>>)
    \o (IF Truthy(selected_model) THEN <<"--model", selected_model>> ELSE <<>>)
    \o (IF Truthy(fallback_model)
        THEN <<"--fallback-model", fallback_model>> ELSE <<>>)

\* asyncio.create_subprocess_shell(" ".join(cmd), cwd=working_directory)
create_subprocess_shell(cmd, working_directory) ==
    [state |-> "running", argv |-> <<"/bin/sh", "-c", Join(cmd, " ")>>,
     cwd |-> working_directory]

\* asyncio.create_subprocess_exec(*cmd, cwd=working_directory)
create_subprocess_exec(cmd, working_directory) ==
    [state |-> "running", argv |-> cmd, cwd |-> working_directory]

\* process.returncode is None
ReturncodeIsNone(process) == process.state \in {"running", "exited"}

\* process.kill(): a signal to a process that is dead already does nothing
kill(process) ==
    IF process.state = "running" THEN [process EXCEPT !.state = "killed"]
    ELSE process

(***************************************************************************)
(* ClaudeClient.query (lines 96-208), one call at a time                   *)
(***************************************************************************)
QueryRequests ==
    [prompt : {"hi", "x; rm -rf ~ | sh", "--resume s9"},
     session_id : {None, "", "s0"},
     allowed_tools : {<<>>, ReadOnlyTools},
     max_turns : {None},
     system_prompt : {None, "be brief"},
     working_directory : {None, "/srv/app"},
     model : {None, "opus"}]

\* what the agent may write to stdout before it exits
QueryReplies ==
    {JsonObject([result |-> TxtOk, session_id |-> "s1",
                 usage |-> [input_tokens |-> 10, output_tokens |-> 2]]),
     JsonObject([result |-> TxtOk, session_id |-> "s1",
                 usage |-> [input_tokens |-> 10, output_tokens |-> 2,
                            cache_read_input_tokens |-> 7,
                            cache_creation_input_tokens |-> 5]]),
     JsonObject([result |-> TxtOk, usage |-> EmptyDict]),
     JsonObject([session_id |-> "s1"]),
     JsonNonObject,
     NotJson(TxtOk)}

\* lines 121-130: the call builds the command line
query(request) ==
    /\ qpc = "idle"
    /\ qreq' = request
    /\ qpc' = "spawn"
    /\ UNCHANGED <<qproc, qres, taskVars, streamVars, healthVars, chatVars>>

\* lines 137-142: the process is spawned, or the binary is not found
query_spawn ==
    /\ qpc = "spawn"
    /\ \/ /\ qproc' = create_subprocess_exec(
                  _build_command(qreq.prompt, qreq.session_id, qreq.allowed_tools,
                                 qreq.max_turns, qreq.system_prompt,
                                 qreq.working_directory, "json", qreq.model),
                  qreq.working_directory)
          /\ qpc' = "communicate"
          /\ UNCHANGED qres
       \/ /\ qres' = QueryOutcome(SpawnError, qreq.session_id)
          /\ qpc' = "raised"
          /\ UNCHANGED qproc
    /\ UNCHANGED <<qreq, taskVars, streamVars, healthVars, chatVars>>

\* the agent process ends by itself
query_process_exit(returncode, stdout, stderr) ==
    /\ qproc.state = "running"
    /\ qproc' = [state |-> "reaped", argv |-> qproc.argv, cwd |-> qproc.cwd,
                 returncode |-> returncode, stdout |-> stdout, stderr |-> stderr]
    /\ UNCHANGED <<qpc, qreq, qres, taskVars, streamVars, healthVars, chatVars>>

\* lines 144-204: communicate() returns once the process has ended
query_communicate ==
    /\ qpc = "communicate"
    /\ qproc.state = "reaped"
    /\ qres' = QueryOutcome(ExitWith(qproc.returncode, qproc.stdout, qproc.stderr),
                            qreq.session_id)
    /\ qpc' = IF qres'.ok THEN "returned" ELSE "raised"
    /\ UNCHANGED <<qreq, qproc, taskVars, streamVars, healthVars, chatVars>>

\* lines 144-147 and 206-208: wait_for gives up on communicate(); the
\* handler raises TimeoutError and does nothing to the process
query_timeout ==
    /\ qpc = "communicate"
    /\ qproc.state = "running"
    /\ qres' = QueryOutcome(Timeout, qreq.session_id)
    /\ qpc' = "raised"
    /\ UNCHANGED <<qreq, qproc, taskVars, streamVars, healthVars, chatVars>>

QueryNext ==
    \/ \E request \in QueryRequests : query(request)
    \/ query_spawn
    \/ \E returncode \in {0, 1}, stdout \in QueryReplies, stderr \in {"", "boom"} :
           query_process_exit(returncode, stdout, stderr)
    \/ query_communicate
    \/ query_timeout

QuerySpec == Init /\ [][QueryNext]_vars

(***************************************************************************)
(* POST /chat (api/routes/chat.py, lines 39-58): the status the route     *)
(* answers with, given what query returned or raised.  An exception that  *)
(* no except clause names leaves the route and the framework answers 500. *)
(***************************************************************************)
ChatStatus(r) ==
    IF r.ok THEN 200
    ELSE IF r.exc.type = "TimeoutError" THEN 504
    ELSE 500

(***************************************************************************)
(* The chat routes (src/api/routes/chat.py) on one session of the         *)
(* SessionManager (src/core/session_manager.py).  Every call of the       *)
(* session manager opens a database session of its own and awaits the     *)
(* database, so the requests interleave between a SELECT and the COMMIT   *)
(* that follows it.                                                        *)
(***************************************************************************)
Routes == {"chat", "send_message"}

\* what the agent may answer to the query of a chat request
ChatOutcomes ==
    {Exit(0, JsonObject([result |-> TxtOk, session_id |-> "s1",
                         usage |-> [input_tokens |-> 10, output_tokens |-> 2]])),
     Exit(0, JsonObject([result |-> TxtOk, session_id |-> "s1",
                         usage |-> [input_tokens |-> 3, output_tokens |-> 1,
                                    cache_read_input_tokens |-> 7,
                                    cache_creation_input_tokens |-> 5]])),
     Timeout,
     ExitWith(1, NotJson(<<>>), "boom")}

\* session_manager.py lines 167-184: the attributes of the loaded row as
\* update_session(claude_session_id, token_usage, increment_messages=True)
\* of request r sets them
UpdatedRow(row, r, claude_session_id, token_usage) ==
    [claude_session_id |->
        IF Truthy(claude_session_id) THEN claude_session_id ELSE row.claude_session_id,
     last_accessed |-> r,
     input_tokens |->
        row.input_tokens + Get(token_usage, "input_tokens", 0),
     output_tokens |->
        row.output_tokens + Get(token_usage, "output_tokens", 0),
     total_tokens |->
        row.total_tokens + Get(token_usage, "total_tokens", 0),
     cache_read_tokens |->
        row.cache_read_tokens + Get(token_usage, "cache_read_tokens", 0),
     cache_creation_tokens |->
        row.cache_creation_tokens + Get(token_usage, "cache_creation_tokens", 0),
     message_count |-> row.message_count + 1]

\* session_manager.py lines 186-187: the flush of the commit writes the
\* attributes whose value differs from the loaded one, as a literal
Commit(row, loaded, updated) ==
    [column \in DOMAIN row |->
        IF updated[column] # loaded[column] THEN updated[column] ELSE row[column]]

\* chat.py lines 49-58 with the update of the session in a finally clause
ChatAfterQueryFinally(result) == "select"

\* chat.py lines 49-61: an exception of the query leaves the handler
ChatAfterQuery(result) == IF result.ok THEN "select" ELSE "raised"

\* chat.py lines 29-37 and 173-184: get_session, which sets last_accessed,
\* and get_claude_session_id; the request is then suspended in the query
chat_begin(r, route) ==
    /\ chat[r].pc = "idle"
    /\ session' = [session EXCEPT !.last_accessed = r]
    /\ chat' = [chat EXCEPT ![r] = [@ EXCEPT !.pc = "query", !.route = route,
                                    !.claude_session_id = session.claude_session_id]]
    /\ UNCHANGED <<messages, taskVars, queryVars, streamVars, healthVars>>

\* chat.py lines 39-58 and 186-205: the query returns or raises
chat_query(r, outcome) ==
    /\ chat[r].pc = "query"
    /\ LET result == QueryOutcome(outcome, chat[r].claude_session_id) IN
       chat' = [chat EXCEPT ![r] =
                    [@ EXCEPT !.pc = ChatAfterQuery(result),
                              !.status_code = ChatStatus(result),
                              !.response = IF result.ok THEN result.value ELSE @]]
    /\ UNCHANGED <<session, messages, taskVars, queryVars, streamVars, healthVars>>

\* session_manager.py lines 162-165: update_session loads the row
update_select(r) ==
    /\ chat[r].pc = "select"
    /\ chat' = [chat EXCEPT ![r] = [@ EXCEPT !.pc = "commit", !.loaded = session]]
    /\ UNCHANGED <<session, messages, taskVars, queryVars, streamVars, healthVars>>

\* session_manager.py lines 167-192: update_session changes the loaded row
\* and commits; chat goes on to its messages, send_message returns
update_commit(r) ==
    /\ chat[r].pc = "commit"
    /\ session' = Commit(session, chat[r].loaded,
                         UpdatedRow(chat[r].loaded, r, chat[r].response.session_id,
                                    chat[r].response.token_usage))
    /\ chat' = [chat EXCEPT ![r].pc = IF chat[r].route = "chat" THEN "add_user" ELSE "done"]
    /\ UNCHANGED <<messages, taskVars, queryVars, streamVars, healthVars>>

\* session_manager.py lines 279-302
add_message(r, role, content) ==
    messages' = Append(messages, [request |-> r, role |-> role, content |-> content])

\* chat.py lines 68-73: the user's message is saved
add_user_message(r) ==
    /\ chat[r].pc = "add_user"
    /\ add_message(r, "user", "prompt")
    /\ chat' = [chat EXCEPT ![r].pc = "add_assistant"]
    /\ UNCHANGED <<session, taskVars, queryVars, streamVars, healthVars>>

\* chat.py lines 74-91: the agent's message is saved, the response returned
add_assistant_message(r) ==
    /\ chat[r].pc = "add_assistant"
    /\ add_message(r, "assistant", chat[r].response.result)
    /\ chat' = [chat EXCEPT ![r].pc = "done"]
    /\ UNCHANGED <<session, taskVars, queryVars, streamVars, healthVars>>

ChatNext ==
    \/ \E r \in ChatIds, route \in Routes : chat_begin(r, route)
    \/ \E r \in ChatIds, outcome \in ChatOutcomes : chat_query(r, outcome)
    \/ \E r \in ChatIds : update_select(r)
    \/ \E r \in ChatIds : update_commit(r)
    \/ \E r \in ChatIds : add_user_message(r)
    \/ \E r \in ChatIds : add_assistant_message(r)

ChatSpec == Init /\ [][ChatNext]_vars

(***************************************************************************)
(* ClaudeClient.query_stream (lines 210-317), one generator at a time.     *)
(* The generator is suspended at the spawn, at a readline, or at one of   *)
(* its three kinds of yield; it ends by returning ("closed"), by an        *)
(* exception ("raised"), or by the consumer's aclose() ("aclosed").        *)
(***************************************************************************)
StreamRequests ==
    [prompt : {"hi"},
     session_id : {None, "s0"},
     allowed_tools : {<<>>},
     max_turns : {None},
     system_prompt : {None},
     working_directory : {None},
     include_partial : BOOLEAN,
     model : {None}]

StreamChunk(type, content, session_id) ==
    [type |-> type, content |-> content, session_id |-> session_id]

\* the JSON objects the agent may write on a line
StreamObjects ==
    {[type |-> "init", session_id |-> "s1"],
     [type |-> "init"],
     [type |-> "text", content |-> "a"],
     [type |-> "tool_use", name |-> "Read", input |-> "a.py"],
     [type |-> "tool_result", content |-> "data"],
     [type |-> "result", result |-> "a"],
     [type |-> "ping"],
     [content |-> "a"]}

\* a line of stdout: JSON or not, blank, not UTF-8, or longer than the
\* 64 KiB limit of the StreamReader
Line(json) == [kind |-> "line", json |-> json]

Blank == [kind |-> "blank"]

BadBytes == [kind |-> "badbytes"]

TooLong == [kind |-> "toolong"]

Lines ==
    {Line(JsonObject(data)) : data \in StreamObjects}
    \cup {Line(JsonNonObject), Line(NotJson("# note")), Blank, BadBytes, TooLong}

\* lines 313-315 with the test of the return code inverted
FinallyIfReaped(process) ==
    IF ~ReturncodeIsNone(process) THEN kill(process) ELSE process

\* lines 313-315
Finally(process) ==
    IF ReturncodeIsNone(process) THEN kill(process) ELSE process

\* lines 253-309: what one line does: nothing, a chunk, or an exception
HandleLine(line, session_id) ==
    CASE line.kind = "toolong" -> Raise("ValueError", "chunk exceed the limit")
      [] line.kind = "badbytes" -> Raise("UnicodeDecodeError", "invalid start byte")
      [] line.kind = "blank" -> Return(<<>>)
      [] line.kind = "line" /\ line.json.form = "invalid" ->
            Return(<<StreamChunk("text", line.json.raw, session_id)>>)
      [] line.kind = "line" /\ line.json.form = "nonobject" ->
            Raise("AttributeError", "object has no attribute 'get'")
      [] line.kind = "line" /\ line.json.form = "object" ->
            LET data == line.json.data
                msg_type == Get(data, "type", "unknown") IN
            CASE msg_type = "text" ->
                    Return(<<StreamChunk("text", Get(data, "content", ""), session_id)>>)
              [] msg_type = "tool_use" ->
                    Return(<<StreamChunk("tool_use",
                                         [name |-> Get(data, "name", None),
                                          input |-> Get(data, "input", None)],
                                         session_id)>>)
              [] msg_type = "tool_result" ->
                    Return(<<StreamChunk("tool_result", Get(data, "content", None),
                                         session_id)>>)
              [] msg_type = "result" ->
                    Return(<<StreamChunk("done", Get(data, "result", ""), session_id)>>)
              [] OTHER -> Return(<<>>)

\* lines 271-273: an init line sets the captured session id
CaptureSession(line, session_id) ==
    IF /\ line.kind = "line"
       /\ line.json.form = "object"
       /\ Get(line.json.data, "type", "unknown") = "init"
    THEN Get(line.json.data, "session_id", session_id)
    ELSE session_id

\* line 317 without the session_id argument
FinalChunkNoSession == StreamChunk("done", "", None)

\* line 317
FinalChunk == StreamChunk("done", "", captured_session_id)

\* lines 296-301 with a return after the yield of the done chunk
AfterYieldReturnAtDone(chunk) == IF chunk.type = "done" THEN "closed" ELSE "read"

\* lines 275-309: after each yield of the loop body the loop reads on
AfterYield(chunk) == "read"

\* the call creates the generator; nothing runs before the first __anext__
query_stream(request) ==
    /\ spc = "idle"
    /\ sreq' = request
    /\ spc' = "spawn"
    /\ UNCHANGED <<sproc, captured_session_id, events, nlines, read_lines, sexc,
                   taskVars, queryVars, healthVars, chatVars>>

\* lines 226-249
stream_spawn ==
    /\ spc = "spawn"
    /\ \/ /\ sproc' = create_subprocess_exec(
                  _build_command(sreq.prompt, sreq.session_id, sreq.allowed_tools,
                                 sreq.max_turns, sreq.system_prompt,
                                 sreq.working_directory, "stream-json", sreq.model)
                  \o (IF sreq.include_partial
                      THEN <<"--include-partial-messages">> ELSE <<>>),
                  sreq.working_directory)
          /\ captured_session_id' = sreq.session_id
          /\ spc' = "read"
          /\ UNCHANGED sexc
       \/ /\ spc' = "raised"
          /\ sexc' = "FileNotFoundError"
          /\ UNCHANGED <<sproc, captured_session_id>>
    /\ UNCHANGED <<sreq, events, nlines, read_lines, taskVars, queryVars, healthVars, chatVars>>

\* the agent process ends by itself
stream_process_exit ==
    /\ sproc.state = "running"
    /\ sproc' = [sproc EXCEPT !.state = "exited"]
    /\ UNCHANGED <<spc, sreq, captured_session_id, events, nlines, read_lines, sexc,
                   taskVars, queryVars, healthVars, chatVars>>

\* the event loop stores the return code
stream_process_reaped ==
    /\ sproc.state = "exited"
    /\ sproc' = [sproc EXCEPT !.state = "reaped"]
    /\ UNCHANGED <<spc, sreq, captured_session_id, events, nlines, read_lines, sexc,
                   taskVars, queryVars, healthVars, chatVars>>

\* lines 253-309: readline returns a line
stream_readline(line) ==
    /\ spc = "read"
    /\ nlines < MaxLines
    /\ nlines' = nlines + 1
    /\ read_lines' = Append(read_lines, line)
    /\ LET handled == HandleLine(line, captured_session_id) IN
       IF ~handled.ok
       THEN /\ sproc' = Finally(sproc)
            /\ spc' = "raised"
            /\ sexc' = handled.exc.type
            /\ UNCHANGED <<captured_session_id, events>>
       ELSE /\ captured_session_id' = CaptureSession(line, captured_session_id)
            /\ events' = events \o handled.value
            /\ spc' = IF handled.value = <<>> THEN "read" ELSE "yield"
            /\ UNCHANGED <<sproc, sexc>>
    /\ UNCHANGED <<sreq, taskVars, queryVars, healthVars, chatVars>>

\* lines 258-259 and 313-317: readline returns b"" at the end of stdout,
\* the loop is left, and the generator yields its last chunk
stream_eof ==
    /\ spc = "read"
    /\ sproc' = Finally(sproc)
    /\ events' = Append(events, FinalChunk)
    /\ spc' = "yield_done"
    /\ UNCHANGED <<sreq, captured_session_id, nlines, read_lines, sexc, taskVars, queryVars, healthVars, chatVars>>

\* lines 311-312 moved inside the loop: the error chunk is yielded and the
\* loop goes on
stream_timeout_in_loop ==
    /\ spc = "read"
    /\ sproc.state = "running"
    /\ events' = Append(events, StreamChunk("error", "Stream timeout", None))
    /\ spc' = "yield"
    /\ UNCHANGED <<sreq, sproc, captured_session_id, nlines, read_lines, sexc,
                   taskVars, queryVars, healthVars, chatVars>>

\* lines 253-256 and 311-312: wait_for gives up on readline; the error
\* chunk is yielded inside the except clause, before the finally clause
stream_timeout ==
    /\ spc = "read"
    /\ sproc.state = "running"
    /\ events' = Append(events, StreamChunk("error", "Stream timeout", None))
    /\ spc' = "yield_error"
    /\ UNCHANGED <<sreq, sproc, captured_session_id, nlines, read_lines, sexc,
                   taskVars, queryVars, healthVars, chatVars>>

\* the task that iterates the generator is cancelled while it reads
stream_cancel ==
    /\ spc = "read"
    /\ sproc' = Finally(sproc)
    /\ spc' = "raised"
    /\ sexc' = "CancelledError"
    /\ UNCHANGED <<sreq, captured_session_id, events, nlines, read_lines, taskVars, queryVars, healthVars, chatVars>>

\* the consumer asks for the next chunk
stream_anext ==
    /\ spc \in {"yield", "yield_error", "yield_done"}
    /\ CASE spc = "yield" ->
               /\ spc' = AfterYield(events[Len(events)])
               /\ UNCHANGED <<sproc, events>>
         [] spc = "yield_error" ->
               /\ sproc' = Finally(sproc)
               /\ events' = Append(events, FinalChunk)
               /\ spc' = "yield_done"
         [] spc = "yield_done" ->
               /\ spc' = "closed"
               /\ UNCHANGED <<sproc, events>>
    /\ UNCHANGED <<sreq, captured_session_id, nlines, read_lines, sexc, taskVars, queryVars, healthVars, chatVars>>

\* the consumer stops at a chunk: aclose() raises GeneratorExit at the yield
stream_aclose ==
    /\ spc \in {"yield", "yield_error", "yield_done"}
    /\ sproc' = IF spc = "yield_done" THEN sproc ELSE Finally(sproc)
    /\ spc' = "aclosed"
    /\ UNCHANGED <<sreq, captured_session_id, events, nlines, read_lines, sexc,
                   taskVars, queryVars, healthVars, chatVars>>

StreamNext ==
    \/ \E request \in StreamRequests : query_stream(request)
    \/ stream_spawn
    \/ stream_process_exit
    \/ stream_process_reaped
    \/ \E line \in Lines : stream_readline(line)
    \/ stream_eof
    \/ stream_timeout
    \/ stream_cancel
    \/ stream_anext
    \/ stream_aclose

StreamSpec == Init /\ [][StreamNext]_vars

(***************************************************************************)
(* ClaudeClient.health_check (lines 319-332), called again and again by   *)
(* the health route, one call at a time                                    *)
(***************************************************************************)
\* line 329 with the return code ignored
HealthResultAlways(returncode) == TRUE

\* line 329
HealthResult(returncode) == returncode = 0

\* lines 330-332: except Exception; an exception it does not catch leaves
\* health_check
health_except(type) ==
    IF type \in ExceptionTypes
    THEN /\ hres' = Append(hres, FALSE)
         /\ hpc' = "idle"
    ELSE /\ hpc' = "raised"
         /\ UNCHANGED hres

\* lines 321-327: the probe is spawned, or the binary is not found
health_check ==
    /\ hpc = "idle"
    /\ Len(hres) < MaxProbes
    /\ \/ /\ hproc' = create_subprocess_exec(<<binary, "--version">>, None)
          /\ hpc' = "communicate"
          /\ UNCHANGED hres
       \/ /\ health_except("FileNotFoundError")
          /\ UNCHANGED hproc
    /\ UNCHANGED <<taskVars, queryVars, streamVars, chatVars>>

\* the probe ends by itself
health_process_exit(returncode) ==
    /\ hproc.state = "running"
    /\ hproc' = [state |-> "reaped", argv |-> hproc.argv, cwd |-> hproc.cwd,
                 returncode |-> returncode]
    /\ UNCHANGED <<hpc, hres, taskVars, queryVars, streamVars, chatVars>>

\* lines 328-329: communicate() returns once the probe has ended
health_communicate ==
    /\ hpc = "communicate"
    /\ hproc.state = "reaped"
    /\ hres' = Append(hres, HealthResult(hproc.returncode))
    /\ hpc' = "idle"
    /\ UNCHANGED <<hproc, taskVars, queryVars, streamVars, chatVars>>

\* lines 328 and 330-332: wait_for gives up after 10 seconds; the handler
\* returns False and does nothing to the probe
health_timeout ==
    /\ hpc = "communicate"
    /\ hproc.state = "running"
    /\ health_except("TimeoutError")
    /\ UNCHANGED <<hproc, taskVars, queryVars, streamVars, chatVars>>

HealthNext ==
    \/ health_check
    \/ \E returncode \in {0, 1, 2} : health_process_exit(returncode)
    \/ health_communicate
    \/ health_timeout

HealthSpec == Init /\ [][HealthNext]_vars

(***************************************************************************)
(* CommandSpec: a call of query and a call of query_stream, each up to    *)
(* the spawn of its process                                                *)
(***************************************************************************)
CommandNext ==
    \/ \E request \in QueryRequests : query(request)
    \/ query_spawn
    \/ \E request \in StreamRequests : query_stream(request)
    \/ stream_spawn

CommandSpec == Init /\ [][CommandNext]_vars

(***************************************************************************)
(* Properties                                                              *)
(***************************************************************************)
Created == DOMAIN tasks

Phases == {"analyze", "implement", "test", "fix", "evaluate"}

\* the indices of the queries of task t that are over
Over(t) == 1..Len(results[t])

\* the change records of task t of one iteration and phase
ChangesOf(t, iteration, phase) ==
    {i \in 1..Len(tasks[t].changes) :
        /\ tasks[t].changes[i].iteration = iteration
        /\ tasks[t].changes[i].phase = phase}

\* the queries task t has issued for one iteration and phase
QueriesOf(t, iteration, phase) ==
    {i \in 1..Len(queries[t]) :
        /\ queries[t][i].iteration = iteration
        /\ queries[t][i].phase = phase}

\* C1: a status read never shows an iteration counter i >= 1 without a
\* change record of iteration i.
C1_StatusNeverPartial ==
    (response.status_code = 200 /\ response.current_iteration >= 1)
    => \E i \in 1..Len(response.changes) :
            response.changes[i].iteration = response.current_iteration

\* C2: once query has returned or raised, the process it spawned is not
\* running any more, and a query that timed out has killed its process.
C2_NoOrphan ==
    qpc \in {"returned", "raised"} =>
        /\ qproc.state # "running"
        /\ (~qres.ok /\ qres.exc.type = "TimeoutError") => qproc.state = "killed"

\* the generator of query_stream has left its read loop
LoopLeft == spc \in {"yield_done", "closed", "raised", "aclosed"}

\* C3: however the read loop of query_stream ends (end of output, timeout,
\* an error on a line, the consumer stopping at a chunk), the child process
\* is not left running.
C3_ChildKilled == LoopLeft => sproc.state # "running"

\* the consumer stopped at a chunk while the child was alive, and it was killed
C3_Witness ==
    /\ spc = "aclosed"
    /\ events # <<>>
    /\ sproc.state = "killed"

\* C4: a stream whose read loop ran and that the consumer read to its end
\* (the generator returned or raised) has a last chunk of type done with
\* empty content, emitted when the child was no longer running.
C4_EndsWithDone ==
    (/\ spc \in {"closed", "raised"}
     /\ sproc.state # "none"
     /\ sexc # "CancelledError") =>
        /\ events # <<>>
        /\ events[Len(events)] = FinalChunk
        /\ sproc.state # "running"

\* C5: a phase query that fails with a timeout or an execution error is the
\* last query of its task, and leaves the task Failed with the error and the
\* completion timestamp recorded.
C5_FailureAborts ==
    \A t \in Created : \A i \in Over(t) :
        results[t][i] \in {"TimeoutError", "RuntimeError"}
        => /\ i = Len(queries[t])
           /\ pc[t] = "done"
           /\ tasks[t].status = FAILED_STATUS
           /\ tasks[t].error # None
           /\ tasks[t].completed_at # None

C5_Witness ==
    \E t \in Created :
        /\ Len(results[t]) = 4
        /\ results[t][4] = "TimeoutError"
        /\ queries[t][4].phase = "fix"

\* C6: every run that begins ends, Completed if no query failed and Failed
\* if one did, and no exception leaves run_evolution.
C6_RunEnds ==
    /\ \A t \in TaskIds :
        (t \in Created /\ tasks[t].status = RUNNING)
            ~> (t \in Created /\ tasks[t].status \in {COMPLETED, FAILED_STATUS})
    /\ [](\A t \in Created :
            /\ pc[t] # "raised"
            /\ (pc[t] = "done") =>
                /\ (tasks[t].status = COMPLETED) <=> (\A i \in Over(t) : results[t][i] = "ok")
                /\ (tasks[t].status = FAILED_STATUS) <=> (\E i \in Over(t) : results[t][i] # "ok"))

C6_Witness ==
    \E t \in Created :
        /\ pc[t] = "done"
        /\ tasks[t].status = FAILED_STATUS
        /\ results[t][Len(results[t])] = "TimeoutError"
        /\ Len(results[t]) > 3

\* C7: a status changes only from Pending to Running and from Running to
\* Completed or Failed, and is never Cancelled.
C7_StatusPath ==
    /\ [](\A t \in Created : tasks[t].status # CANCELLED)
    /\ [][\A t \in Created :
            tasks'[t].status # tasks[t].status
            => \/ tasks[t].status = PENDING /\ tasks'[t].status = RUNNING
               \/ tasks[t].status = RUNNING /\ tasks'[t].status \in {COMPLETED, FAILED_STATUS}]_vars

C7_Witness ==
    \E t \in Created :
        /\ tasks[t].status = FAILED_STATUS
        /\ tasks[t].current_iteration = 2

\* C8: once the evaluate text of iteration k holds the sentinel, the task is
\* Completed with current_iteration = k and has issued no query of a later
\* iteration.
C8_SentinelStops ==
    \A t \in Created : \A i \in 1..Len(tasks[t].changes) :
        LET c == tasks[t].changes[i] IN
        (c.phase = "evaluate" /\ Contains(OBJECTIVE_COMPLETE, c.result))
        => /\ tasks[t].status = COMPLETED
           /\ pc[t] = "done"
           /\ tasks[t].current_iteration = c.iteration
           /\ \A j \in 1..Len(queries[t]) : queries[t][j].iteration <= c.iteration

C8_Witness ==
    \E t \in Created :
        /\ requests[t].max_iterations = 2
        /\ ChangesOf(t, 1, "evaluate") # {}
        /\ \E i \in ChangesOf(t, 1, "evaluate") :
                Contains(OBJECTIVE_COMPLETE, tasks[t].changes[i].result)
        /\ tasks[t].status = COMPLETED

\* two characters that are the same letter, whatever their case
SameLetter(c, d) ==
    c = d \/ \E k \in 1..26 : {c, d} = {LowerCase[k], UpperCase[k]}

\* word occurs in text, the case of letters ignored
ContainsIgnoreCase(word, text) ==
    \E i \in 0..(Len(text) - Len(word)) :
        \A j \in 1..Len(word) : SameLetter(text[i + j], word[j])

ReportsFailure(text) ==
    ContainsIgnoreCase(FAILED, text) \/ ContainsIgnoreCase(ERROR, text)

\* what C9 says of the fix queries in `fixes`, indices into queries[t]
FixRule(t, fixes) ==
    /\ \A j \in 1..Len(tasks[t].test_results) :
        LET tr == tasks[t].test_results[j] IN
        (QueriesOf(t, tr.iteration, "fix") # {}) <=> ReportsFailure(tr.result)
    /\ \A k \in 1..MaxIter + 1 : Cardinality(QueriesOf(t, k, "fix")) <= 1
    /\ \A i \in fixes :
        LET k == queries[t][i].iteration IN
        queries[t][i].phase = "fix"
        => /\ Cardinality(ChangesOf(t, k, "fix")) = 1
           /\ \E j \in 1..Len(tasks[t].test_results) : tasks[t].test_results[j].iteration = k
           /\ \A f \in ChangesOf(t, k, "fix") : \A e \in ChangesOf(t, k, "evaluate") : f < e

\* C9 as claimed: a fix query is issued iff the test report holds FAILED or
\* ERROR in any case, at most once per iteration, and every fix query issued
\* leaves exactly one fix record, after the test record and before the
\* evaluate record of its iteration.
C9_FixAlwaysRecorded == \A t \in Created : FixRule(t, Over(t))

\* C9 as amended: the same, of every fix query that returned a response.
C9_FixRecordedOnSuccess ==
    \A t \in Created :
        /\ FixRule(t, {i \in Over(t) : results[t][i] = "ok"})
        /\ \A k \in 1..MaxIter + 1 :
            ChangesOf(t, k, "fix") # {}
            => \E i \in QueriesOf(t, k, "fix") : i \in Over(t) /\ results[t][i] = "ok"

C9_Witness ==
    \E t \in Created :
        /\ tasks[t].test_results # <<>>
        /\ tasks[t].test_results[1].result = TxtFailed
        /\ ChangesOf(t, 1, "fix") # {}
        /\ ChangesOf(t, 1, "evaluate") # {}

\* the record C10 expects at place i of the change list
PlainChange(i) ==
    [iteration |-> ((i - 1) \div 3) + 1,
     phase |-> <<"analyze", "implement", "evaluate">>[((i - 1) % 3) + 1]]

\* the run of task t is one C10 speaks of
PlainRun(t) ==
    /\ requests[t].test_command \in {None, ""}
    /\ \A i \in Over(t) : results[t][i] = "ok"
    /\ \A i \in 1..Len(tasks[t].changes) :
        tasks[t].changes[i].phase = "evaluate"
        => ~Contains(OBJECTIVE_COMPLETE, tasks[t].changes[i].result)

\* C10: with no test command, no failing query and no sentinel, the change
\* records are analyze, implement, evaluate for iterations 1, 2, .. in order,
\* there is no test record, and the run ends Completed with
\* current_iteration = max_iterations.
C10_PlainPhases ==
    \A t \in Created :
        PlainRun(t)
        => /\ tasks[t].test_results = <<>>
           /\ \A i \in 1..Len(queries[t]) : queries[t][i].phase \notin {"test", "fix"}
           /\ \A i \in 1..Len(tasks[t].changes) :
                /\ tasks[t].changes[i].iteration = PlainChange(i).iteration
                /\ tasks[t].changes[i].phase = PlainChange(i).phase
           /\ (pc[t] = "done")
                => /\ tasks[t].status = COMPLETED
                   /\ tasks[t].current_iteration = requests[t].max_iterations
                   /\ Len(tasks[t].changes) = 3 * requests[t].max_iterations
                   /\ Len(queries[t]) = 3 * requests[t].max_iterations

C10_Witness ==
    \E t \in Created :
        /\ PlainRun(t)
        /\ pc[t] = "done"
        /\ requests[t].max_iterations = 2
        /\ Len(tasks[t].changes) = 6

\* query i of task t follows a query of the given phase of the same
\* iteration and resumes the session that query returned
ChainedTo(t, i, phase) ==
    /\ i > 1
    /\ queries[t][i - 1].phase = phase
    /\ queries[t][i - 1].iteration = queries[t][i].iteration
    /\ queries[t][i].session_id = tokens[t][i - 1]

\* C11: every evaluate query resumes the session returned by the query
\* issued just before it in its iteration: implement with no test phase,
\* test when no fix ran, fix when a fix ran.
C11_EvaluateLatestToken ==
    \A t \in Created : \A i \in 1..Len(queries[t]) :
        queries[t][i].phase = "evaluate" =>
            /\ i > 1
            /\ queries[t][i - 1].phase \in {"implement", "test", "fix"}
            /\ queries[t][i].session_id = tokens[t][i - 1]

Recorded(t, i) ==
    LET q == queries[t][i] IN
    IF q.phase = "test"
    THEN \E j \in 1..Len(tasks[t].test_results) :
            tasks[t].test_results[j].iteration = q.iteration
    ELSE ChangesOf(t, q.iteration, q.phase) # {}

\* C13: a task has at most one query in flight, it has one exactly while
\* its run is suspended in a phase, and every query issued after another
\* one was issued when that one had returned and left its record.
C13_OneQueryInFlight ==
    \A t \in Created :
        /\ Len(queries[t]) - Len(results[t]) \in {0, 1}
        /\ (Len(queries[t]) - Len(results[t]) = 1) <=> (pc[t] \in Phases)
        /\ \A i \in 2..Len(queries[t]) :
            /\ results[t][i - 1] = "ok"
            /\ Recorded(t, i - 1)

\* the evaluate query of an iteration with a fix is in flight, after four
\* queries that have returned
C13_Witness ==
    \E t \in Created :
        /\ pc[t] = "evaluate"
        /\ Len(queries[t]) = 5
        /\ Len(results[t]) = 4
        /\ queries[t][4].phase = "fix"
        /\ Len(tasks[t].changes) = 3
        /\ Len(tasks[t].test_results) = 1

\* C14: the iteration counter stays within 0..max_iterations, no query is
\* issued for an iteration above max_iterations, and a task issues at most
\* max_iterations analyze queries.
C14_MaxIterations ==
    \A t \in Created :
        /\ tasks[t].max_iterations = requests[t].max_iterations
        /\ tasks[t].current_iteration \in 0..requests[t].max_iterations
        /\ \A i \in 1..Len(queries[t]) :
            queries[t][i].iteration \in 1..requests[t].max_iterations
        /\ Cardinality({i \in 1..Len(queries[t]) : queries[t][i].phase = "analyze"})
            <= requests[t].max_iterations

\* a run that used up its iterations without meeting its objective
C14_Witness ==
    \E t \in Created :
        /\ pc[t] = "done"
        /\ tasks[t].status = COMPLETED
        /\ requests[t].max_iterations = 2
        /\ tasks[t].current_iteration = 2
        /\ loc[t].evaluate_response.result = TxtOk
        /\ Cardinality({i \in 1..Len(queries[t]) : queries[t][i].phase = "analyze"})
            = requests[t].max_iterations

\* a line of the five kinds of the stream protocol, with its fields
WellFormed(line) ==
    /\ line.kind = "line"
    /\ line.json.form = "object"
    /\ LET data == line.json.data IN
       /\ "type" \in DOMAIN data
       /\ \/ data.type = "init" /\ "session_id" \in DOMAIN data
          \/ data.type \in {"text", "tool_result"} /\ "content" \in DOMAIN data
          \/ data.type = "tool_use" /\ {"name", "input"} \subseteq DOMAIN data
          \/ data.type = "result" /\ "result" \in DOMAIN data

RECURSIVE KnownToken(_, _)
\* the continuation token known after some lines: the one of the last init
\* line that has one, else the one of the request
KnownToken(lines, token) ==
    IF lines = <<>> THEN token
    ELSE LET line == lines[Len(lines)] IN
         IF /\ line.kind = "line"
            /\ line.json.form = "object"
            /\ "type" \in DOMAIN line.json.data
            /\ line.json.data.type = "init"
            /\ "session_id" \in DOMAIN line.json.data
         THEN line.json.data.session_id
         ELSE KnownToken(SubSeq(lines, 1, Len(lines) - 1), token)

RECURSIVE Dispatch(_, _)
\* the events that well-formed lines stand for, in line order
Dispatch(lines, token) ==
    IF lines = <<>> THEN <<>>
    ELSE LET data == Head(lines).json.data
             rest == Tail(lines) IN
         CASE data.type = "init" -> Dispatch(rest, data.session_id)
           [] data.type = "text" ->
                <<[type |-> "text", content |-> data.content, session_id |-> token]>>
                \o Dispatch(rest, token)
           [] data.type = "tool_use" ->
                <<[type |-> "tool_use",
                   content |-> [name |-> data.name, input |-> data.input],
                   session_id |-> token]>>
                \o Dispatch(rest, token)
           [] data.type = "tool_result" ->
                <<[type |-> "tool_result", content |-> data.content, session_id |-> token]>>
                \o Dispatch(rest, token)
           [] data.type = "result" ->
                <<[type |-> "done", content |-> data.result, session_id |-> token]>>
                \o Dispatch(rest, token)

\* the positions of the error chunks
ErrorEvents == {j \in 1..Len(events) : events[j].type = "error"}

\* C15: while the lines read are well-formed and no read has timed out, the
\* events are those of the per-line dispatch, in line order; a stream read
\* to its end has one more event, a done with empty content and the token.
C15_Dispatch ==
    (/\ spc \notin {"idle", "spawn"}
     /\ sproc.state # "none"
     /\ \A i \in 1..Len(read_lines) : WellFormed(read_lines[i])
     /\ ErrorEvents = {}) =>
        LET expected == Dispatch(read_lines, sreq.session_id)
            final == [type |-> "done", content |-> "",
                      session_id |-> KnownToken(read_lines, sreq.session_id)]
        IN  /\ spc \in {"read", "yield"} => events = expected
            /\ spc \in {"yield_done", "closed"} => events = expected \o <<final>>
            /\ spc \in {"aclosed", "raised"} =>
                   events \in {expected, expected \o <<final>>}

\* the stream of init(s1), text(a), result(a) read to its end
C15_Witness ==
    /\ spc = "closed"
    /\ read_lines = <<Line(JsonObject([type |-> "init", session_id |-> "s1"])),
                      Line(JsonObject([type |-> "text", content |-> "a"])),
                      Line(JsonObject([type |-> "result", result |-> "a"]))>>
    /\ events = <<[type |-> "text", content |-> "a", session_id |-> "s1"],
                  [type |-> "done", content |-> "a", session_id |-> "s1"],
                  [type |-> "done", content |-> "", session_id |-> "s1"]>>

\* the lines read that are no JSON object: no JSON at all, or JSON of
\* another kind
Unparsed ==
    {i \in 1..Len(read_lines) :
        /\ read_lines[i].kind = "line"
        /\ read_lines[i].json.form \in {"invalid", "nonobject"}}

\* C16: a line that is no JSON object never aborts the stream and gives
\* one text event.
C16_UnparsedAsText ==
    /\ Unparsed # {} => sexc \notin {"AttributeError"}
    /\ Cardinality({j \in 1..Len(events) : events[j].type = "text"})
        >= Cardinality(Unparsed)

\* C17: once a continuation token is known, the event the consumer has
\* just been handed carries it, whatever its type.
C17_TokenPropagated ==
    (/\ spc \in {"yield", "yield_error", "yield_done"}
     /\ KnownToken(read_lines, sreq.session_id) # None) =>
        events[Len(events)].session_id = KnownToken(read_lines, sreq.session_id)

\* C18: a stream has at most one error event; after it comes nothing but
\* the final done, and no line is read any more.
C18_TimeoutEndsStream ==
    /\ [](/\ Cardinality(ErrorEvents) <= 1
          /\ \A j \in ErrorEvents :
                /\ events[j].content = "Stream timeout"
                /\ spc \in {"yield_error", "yield_done", "closed", "aclosed"}
                /\ \/ j = Len(events)
                   \/ j = Len(events) - 1 /\ events[Len(events)] = FinalChunk)
    /\ [][ErrorEvents # {} =>
            /\ read_lines' = read_lines
            /\ spc' # "read"
            /\ Cardinality(ErrorEvents') = 1]_vars

\* a read timed out after one event, and the stream was read to its end
C18_Witness ==
    /\ spc = "closed"
    /\ Len(events) = 3
    /\ events[2].type = "error"
    /\ events[3] = FinalChunk
    /\ Len(read_lines) = 1

\* C19: once a blank line has been read, no later line is read.
C19_BlankLineEnds ==
    \A i \in 1..Len(read_lines) :
        read_lines[i].kind = "blank" => i = Len(read_lines)

\* the reply a query that returned has parsed, and what it returned
Reply == qproc.stdout.data

\* the token of the reply if it has one, else the one of the request, else
\* the empty one
ReplyToken ==
    IF "session_id" \in DOMAIN Reply THEN Reply.session_id
    ELSE IF qreq.session_id \notin {None, ""} THEN qreq.session_id
    ELSE ""

\* a usage block with the four counters of the reply, 0 where it has none,
\* and their total
UsageBlock(token_usage, usage) ==
    LET Counter(key) == IF key \in DOMAIN usage THEN usage[key] ELSE 0 IN
    /\ DOMAIN token_usage = {"input_tokens", "output_tokens", "total_tokens",
                             "cache_read_tokens", "cache_creation_tokens"}
    /\ token_usage.input_tokens = Counter("input_tokens")
    /\ token_usage.output_tokens = Counter("output_tokens")
    /\ token_usage.cache_read_tokens = Counter("cache_read_input_tokens")
    /\ token_usage.cache_creation_tokens = Counter("cache_creation_input_tokens")
    /\ token_usage.total_tokens = Counter("input_tokens") + Counter("output_tokens")

\* query has returned the reply of an agent that wrote one JSON object
ReturnedObject ==
    /\ qpc = "returned"
    /\ qproc.returncode = 0
    /\ qproc.stdout.form = "object"

ExitedZero ==
    /\ qpc \in {"returned", "raised"}
    /\ qproc.state = "reaped"
    /\ qproc.returncode = 0
    /\ qres.ok \/ qres.exc.type # "TimeoutError"

\* C21: a run that exits 0 makes query return a response, whatever stdout
\* holds; when stdout is no JSON object the response has the raw text, the
\* token of the request or the empty one, and no usage counter but 0.
C21_ExitZeroReturns ==
    ExitedZero =>
        /\ qpc = "returned"
        /\ qproc.stdout.form # "object" =>
            /\ qproc.stdout.form = "invalid" => qres.value.result = qproc.stdout.raw
            /\ qres.value.session_id =
                (IF qreq.session_id \in {None, ""} THEN "" ELSE qreq.session_id)
            /\ \A key \in DOMAIN qres.value.token_usage :
                qres.value.token_usage[key] = 0

\* C22: when the wait of query ends on a nonzero exit, query raises a
\* RuntimeError whose message carries stderr and the chat route answers
\* 500; when it ends on the deadline, query raises a TimeoutError and the
\* route answers 504.
C22_FailuresDistinct ==
    [][(qpc = "communicate" /\ qpc' # "communicate") =>
        IF qproc.state = "reaped"
        THEN qproc.returncode # 0 =>
                /\ ~qres'.ok
                /\ qres'.exc.type = "RuntimeError"
                /\ qres'.exc.msg = "Claude CLI failed: " \o
                    (IF qproc.stderr = "" THEN "Unknown error" ELSE qproc.stderr)
                /\ ChatStatus(qres') = 500
        ELSE /\ ~qres'.ok
             /\ qres'.exc.type = "TimeoutError"
             /\ ChatStatus(qres') = 504]_vars

\* the agent exited 1 with "boom" on stderr
C22_Witness ==
    /\ qpc = "raised"
    /\ qproc.state = "reaped"
    /\ qproc.returncode = 1
    /\ qproc.stderr = "boom"
    /\ qres.exc.type = "RuntimeError"
    /\ qres.exc.msg = "Claude CLI failed: boom"
    /\ ChatStatus(qres) = 500

\* C23: the process of query is spawned from an argument vector whose
\* third element, after the binary and "-p", is the prompt as given, and
\* the prompt is in no other element.
C23_PromptDiscrete ==
    qproc.state # "none" =>
        /\ Len(qproc.argv) >= 3
        /\ qproc.argv[1] = binary
        /\ qproc.argv[2] = "-p"
        /\ qproc.argv[3] = qreq.prompt
        /\ \A i \in 4..Len(qproc.argv) : qproc.argv[i] # qreq.prompt

\* a prompt with shell metacharacters, and one that looks like a flag
C23_Witness ==
    /\ qproc.state = "running"
    /\ qreq.prompt \in {"x; rm -rf ~ | sh", "--resume s9"}
    /\ qproc.argv[3] = qreq.prompt
    /\ qreq.session_id = "s0"
    /\ qproc.argv[6] = "--resume"

\* the number of times a flag stands among the options of a command line,
\* which follow the binary, "-p" and the prompt
Count(argv, flag) == Cardinality({i \in 4..Len(argv) : argv[i] = flag})

\* the flag stands once among the options, followed by the value
FlagWith(argv, flag, value) ==
    /\ Count(argv, flag) = 1
    /\ \E i \in 4..(Len(argv) - 1) : argv[i] = flag /\ argv[i + 1] = value

\* the command line a request asks for
Flags(argv, request, format, partial) ==
    /\ SubSeq(argv, 1, 3) = <<"claude", "-p", request.prompt>>
    /\ FlagWith(argv, "--output-format", format)
    /\ IF request.session_id \notin {None, ""}
       THEN FlagWith(argv, "--resume", request.session_id)
       ELSE Count(argv, "--resume") = 0
    /\ IF request.allowed_tools = <<"Read", "Glob", "Grep">>
       THEN FlagWith(argv, "--allowedTools", "Read,Glob,Grep")
       ELSE request.allowed_tools = <<>> /\ Count(argv, "--allowedTools") = 0
    /\ IF request.system_prompt \notin {None, ""}
       THEN FlagWith(argv, "--append-system-prompt", request.system_prompt)
       ELSE Count(argv, "--append-system-prompt") = 0
    /\ FlagWith(argv, "--model",
                IF request.model \notin {None, ""} THEN request.model
                ELSE "claude-sonnet-4-20250514")
    /\ FlagWith(argv, "--fallback-model", "claude-haiku-4-5-20251001")
    /\ Count(argv, "--include-partial-messages") = (IF partial THEN 1 ELSE 0)

\* C24: the command line of query has the prompt, the json format and each
\* optional flag exactly when the request asks for it; the one of
\* query_stream has the stream-json format and the partial-messages flag
\* exactly when intermediate events are requested.
C24_Flags ==
    /\ qproc.state # "none" => Flags(qproc.argv, qreq, "json", FALSE)
    /\ sproc.state # "none" =>
           Flags(sproc.argv, sreq, "stream-json", sreq.include_partial)

\* a query with every optional flag and a stream with partial messages
C24_Witness ==
    /\ qproc.state = "running"
    /\ qproc.argv = <<"claude", "-p", "hi", "--output-format", "json",
                      "--resume", "s0", "--allowedTools", "Read,Glob,Grep",
                      "--append-system-prompt", "be brief", "--model", "opus",
                      "--fallback-model", "claude-haiku-4-5-20251001">>
    /\ sproc.state = "running"
    /\ sreq.include_partial
    /\ sproc.argv[Len(sproc.argv)] = "--include-partial-messages"

\* C25: no error leaves health_check; a call that returns true had a probe
\* that exited 0 before the timeout, and a call that ends on a nonzero
\* exit, on the timeout or on a failed spawn returns false.
C25_HealthNeverRaises ==
    /\ [](hpc # "raised")
    /\ [][Len(hres') > Len(hres) =>
            hres'[Len(hres')] =
                (/\ hpc = "communicate"
                 /\ hproc.state = "reaped"
                 /\ hproc.returncode = 0)]_vars

\* three calls: one probe exited 0, one exited 2, one was not over in time
C25_Witness ==
    /\ hres = <<TRUE, FALSE, FALSE>>
    /\ hproc.state = "running"
    /\ hpc = "idle"

\* C26: start_evolution adds one record under an id no other task has, in
\* state Pending with current_iteration 0, no change, no test result, no
\* error and no timestamp, and changes no other record; no step removes a
\* record; the status of an id is not-found exactly while no task was
\* created under it, and is found in every state after.
C26_Registry ==
    /\ [](\A task_id \in TaskIds :
            EvolveStatusResponse(task_id).status_code =
                (IF task_id \in DOMAIN tasks THEN 200 ELSE 404))
    /\ [][/\ DOMAIN tasks \subseteq DOMAIN tasks'
          /\ (\E request \in EvolveRequests : start_evolution(request)) =>
                \E task_id \in DOMAIN tasks' \ DOMAIN tasks :
                    /\ DOMAIN tasks' = DOMAIN tasks \cup {task_id}
                    /\ tasks'[task_id].status = PENDING
                    /\ tasks'[task_id].current_iteration = 0
                    /\ tasks'[task_id].changes = <<>>
                    /\ tasks'[task_id].test_results = <<>>
                    /\ tasks'[task_id].error = None
                    /\ tasks'[task_id].started_at = None
                    /\ tasks'[task_id].completed_at = None
                    /\ \A x \in DOMAIN tasks : tasks'[x] = tasks[x]]_vars

\* a task was created while another had recorded its analysis, and
\* is pending beside it
C26_Witness ==
    /\ DOMAIN tasks = {1, 2}
    /\ tasks[1].status = RUNNING
    /\ Len(tasks[1].changes) >= 1
    /\ tasks[2].status = PENDING
    /\ tasks[2].changes = <<>>

\* C27: a step of the run of one task changes no record of the registry but
\* this task's, however the runs interleave.
C27_Frame ==
    [][\A t \in TaskIds :
            Run(t) => \A u \in DOMAIN tasks \ {t} : tasks'[u] = tasks[u]]_vars

\* two runs are under way, each has recorded changes, and one of them failed
C27_Witness ==
    /\ DOMAIN tasks = {1, 2}
    /\ tasks[1].status = FAILED_STATUS
    /\ Len(tasks[1].changes) >= 1
    /\ tasks[2].status = RUNNING
    /\ Len(tasks[2].changes) >= 2

\* C28: the step that marks a task failed leaves its change records and its
\* test records as they were and its current_iteration at the iteration of
\* the query that failed, and records an error; no later step changes the
\* record, and its status is found, with that error and that history.
C28_FailedKeepsHistory ==
    /\ [][\A t \in DOMAIN tasks :
            /\ (tasks[t].status # FAILED_STATUS /\ tasks'[t].status = FAILED_STATUS)
               => /\ tasks'[t].changes = tasks[t].changes
                  /\ tasks'[t].test_results = tasks[t].test_results
                  /\ tasks'[t].current_iteration = tasks[t].current_iteration
                  /\ tasks'[t].current_iteration = queries[t][Len(queries[t])].iteration
                  /\ tasks'[t].error # None
            /\ tasks[t].status = FAILED_STATUS => tasks'[t] = tasks[t]]_vars
    /\ [](\A t \in DOMAIN tasks :
            tasks[t].status = FAILED_STATUS
            => /\ EvolveStatusResponse(t).status_code = 200
               /\ EvolveStatusResponse(t).error = tasks[t].error
               /\ EvolveStatusResponse(t).error # None
               /\ EvolveStatusResponse(t).current_iteration = tasks[t].current_iteration
               /\ EvolveStatusResponse(t).changes = tasks[t].changes
               /\ EvolveStatusResponse(t).test_results = tasks[t].test_results)

\* a task failed in its second iteration, after a whole first iteration
C28_Witness ==
    \E t \in DOMAIN tasks :
        /\ tasks[t].status = FAILED_STATUS
        /\ tasks[t].current_iteration = 2
        /\ Len(tasks[t].changes) >= 4
        /\ tasks[t].test_results # <<>>

\* the test records of task t of one iteration
TestsOf(t, iteration) ==
    {j \in 1..Len(tasks[t].test_results) : tasks[t].test_results[j].iteration = iteration}

\* the queries of task t of one iteration and phase that returned a response
Returned(t, iteration, phase) ==
    {i \in QueriesOf(t, iteration, phase) : i \in Over(t) /\ results[t][i] = "ok"}

\* without a test command: no test query, no fix query, no test record
NoTestPhase(t) ==
    /\ \A i \in 1..Len(queries[t]) : queries[t][i].phase \notin {"test", "fix"}
    /\ tasks[t].test_results = <<>>

\* C29: without a test command no test or fix query is issued and the test
\* records stay empty; with one, an iteration whose implement query has
\* returned has one test query and, once that query is over, one test
\* record, which is there before any fix or evaluate record of the iteration.
C29_TestPhase ==
    \A t \in Created :
        IF ~Truthy(requests[t].test_command)
        THEN NoTestPhase(t)
        ELSE \A k \in 1..MaxIter :
                Returned(t, k, "implement") # {}
                => /\ Cardinality(QueriesOf(t, k, "test")) = 1
                   /\ QueriesOf(t, k, "test") \subseteq Over(t)
                      => Cardinality(TestsOf(t, k)) = 1
                   /\ ChangesOf(t, k, "fix") \cup ChangesOf(t, k, "evaluate") # {}
                      => TestsOf(t, k) # {}

\* C29 as amended: the test record is appended when the test query returns
\* a response; when it raises, the iteration has no test record.
C29_TestPhaseOnSuccess ==
    \A t \in Created :
        IF ~Truthy(requests[t].test_command)
        THEN NoTestPhase(t)
        ELSE \A k \in 1..MaxIter :
                /\ Returned(t, k, "implement") # {}
                   => Cardinality(QueriesOf(t, k, "test")) = 1
                /\ Returned(t, k, "implement") = {}
                   => QueriesOf(t, k, "test") = {}
                /\ Cardinality(TestsOf(t, k)) = Cardinality(Returned(t, k, "test"))
                /\ ChangesOf(t, k, "fix") \cup ChangesOf(t, k, "evaluate") # {}
                   => TestsOf(t, k) # {}

\* a run with a test command went through two iterations and tested both
C29_Witness ==
    \E t \in Created :
        /\ Truthy(requests[t].test_command)
        /\ TestsOf(t, 1) # {}
        /\ TestsOf(t, 2) # {}
        /\ ChangesOf(t, 2, "evaluate") # {}

\* the tools of a query, as a set
ToolsOf(q) == {q.allowed_tools[i] : i \in 1..Len(q.allowed_tools)}

\* C30: analyze and evaluate queries carry read-only tools only, Bash is
\* given to test and fix queries only, Edit and Write to implement and fix
\* queries only.
C30_ToolsPerPhase ==
    \A t \in Created :
        \A i \in 1..Len(queries[t]) :
            LET q == queries[t][i] IN
            /\ q.phase \in {"analyze", "evaluate"}
               => ToolsOf(q) \subseteq {"Read", "Glob", "Grep"}
            /\ "Bash" \in ToolsOf(q) => q.phase \in {"test", "fix"}
            /\ ToolsOf(q) \cap {"Edit", "Write"} # {}
               => q.phase \in {"implement", "fix"}

\* one iteration has issued a query in each of the five phases
C30_Witness ==
    \E t \in Created :
        \A phase \in Phases : QueriesOf(t, 1, phase) # {}

\* C31: a line read from the agent that is a JSON object and no init line,
\* whatever its type or without one, adds exactly one event to the stream.
C31_FallbackArm ==
    [][Len(read_lines') = Len(read_lines) + 1 =>
        LET line == read_lines'[Len(read_lines')] IN
        (/\ line.kind = "line"
         /\ line.json.form = "object"
         /\ Get(line.json.data, "type", "unknown") # "init")
        => Len(events') = Len(events) + 1]_vars

\* the requests whose query succeeded and that have returned
Served == {r \in ChatIds : chat[r].pc = "done"}

RECURSIVE UsageSum(_, _)
\* the sum of one counter over the responses of the served requests 1..n
UsageSum(n, counter) ==
    IF n = 0 THEN 0
    ELSE UsageSum(n - 1, counter)
         + (IF n \in Served THEN Get(chat[n].response.token_usage, counter, 0) ELSE 0)

Counters ==
    {"input_tokens", "output_tokens", "total_tokens", "cache_read_tokens",
     "cache_creation_tokens"}

\* C32: once the requests on the session have returned, each token counter
\* of the session is the sum of that counter over the responses served, and
\* message_count is the number of requests served.
C32_NoLostUpdate ==
    (\A r \in ChatIds : chat[r].pc \in {"idle", "done", "raised"}) =>
        /\ \A counter \in Counters : session[counter] = UsageSum(MaxChats, counter)
        /\ session.message_count = Cardinality(Served)

\* the columns C33 is about
Kept(row) == [row EXCEPT !.last_accessed = 0]

\* C33: the step in which the query of a request fails changes neither the
\* token counters, message_count and continuation token of the session nor
\* the message rows; a step that changes one of them is a step of a request
\* whose query returned a response, and a request whose query failed takes
\* no further step.
C33_FailureLeavesSession ==
    /\ [](\A r \in ChatIds :
            /\ chat[r].pc \in {"select", "commit", "add_user", "add_assistant", "done"}
               => chat[r].status_code = 200
            /\ chat[r].pc = "raised" => chat[r].status_code \in {500, 504})
    /\ [][/\ \A r \in ChatIds :
                /\ chat[r].pc = "query" /\ chat'[r].pc = "raised"
                   => Kept(session') = Kept(session) /\ messages' = messages
                /\ chat[r].pc = "raised" => chat'[r] = chat[r]
          /\ (Kept(session') # Kept(session) \/ messages' # messages)
             => \E r \in ChatIds :
                    /\ chat[r].status_code = 200
                    /\ chat[r].pc \in {"commit", "add_user", "add_assistant"}
                    /\ chat'[r].pc # chat[r].pc]_vars

\* one request was served and left its usage and its two messages; the
\* query of the other timed out after it had touched the session
C33_Witness ==
    /\ chat[1].pc = "done"
    /\ chat[1].route = "chat"
    /\ chat[2].pc = "raised"
    /\ chat[2].status_code = 504
    /\ session.last_accessed = 2
    /\ session.message_count = 1
    /\ session.input_tokens = 10
    /\ Len(messages) = 2

\* the result lines among the lines read
ResultLines ==
    {i \in 1..Len(read_lines) :
        /\ read_lines[i].kind = "line"
        /\ read_lines[i].json.form = "object"
        /\ Get(read_lines[i].json.data, "type", "unknown") = "result"}

DoneEvents == {j \in 1..Len(events) : events[j].type = "done"}

\* C34: a stream read to its end has one done event for each result line
\* read and one more, the last; the event of a result line is followed by
\* the events of the lines read after it.
C34_DoneNotTerminal ==
    /\ Cardinality(DoneEvents) <= Cardinality(ResultLines) + 1
    /\ spc \in {"yield_done", "closed"}
       => /\ Cardinality(DoneEvents) = Cardinality(ResultLines) + 1
          /\ events[Len(events)] = FinalChunk
    /\ spc \in {"read", "yield"}
       => Cardinality(DoneEvents) = Cardinality(ResultLines)

\* result(a), text(a), result(a) were read to the end: three done events,
\* a text event after the first
C34_Witness ==
    /\ spc = "closed"
    /\ Len(events) = 4
    /\ events[1].type = "done" /\ events[1].content = "a"
    /\ events[2].type = "text"
    /\ events[3].type = "done" /\ events[3].content = "a"
    /\ events[4] = FinalChunk
    /\ Cardinality(ResultLines) = 2

\* the tokens the queries of one iteration of task t have returned
TokensOf(t, iteration) ==
    {tokens[t][i] : i \in {j \in Over(t) : queries[t][j].iteration = iteration}}

\* C35: every analyze query is issued without a continuation token, and no
\* query of an iteration is given a token that a query of the iteration
\* before has returned.
C35_IterationsUnchained ==
    \A t \in Created :
        \A i \in 1..Len(queries[t]) :
            LET q == queries[t][i] IN
            /\ q.phase = "analyze" => q.session_id = None
            /\ Truthy(q.session_id) => q.session_id \notin TokensOf(t, q.iteration - 1)

\* the evaluate query of the first iteration returned a token, and the
\* implement query of the second was issued with another
C35_Witness ==
    \E t \in Created :
        \E i \in QueriesOf(t, 1, "evaluate"), j \in QueriesOf(t, 2, "implement") :
            /\ i \in Over(t)
            /\ Truthy(tokens[t][i])
            /\ Truthy(queries[t][j].session_id)
            /\ queries[t][j].session_id # tokens[t][i]

\* C36: started_at is set iff the status is not Pending, completed_at iff it
\* is Completed or Failed, error iff it is Failed; a Pending task has
\* current_iteration 0 and no change or test record.
C36_RecordConsistent ==
    \A t \in Created :
        /\ tasks[t].started_at # None <=> tasks[t].status # PENDING
        /\ tasks[t].completed_at # None <=> tasks[t].status \in {COMPLETED, FAILED_STATUS}
        /\ tasks[t].error # None <=> tasks[t].status = FAILED_STATUS
        /\ tasks[t].status = PENDING
           => /\ tasks[t].current_iteration = 0
              /\ tasks[t].changes = <<>>
              /\ tasks[t].test_results = <<>>

\* a task completed after two iterations
C36_Witness ==
    \E t \in Created :
        /\ tasks[t].status = COMPLETED
        /\ tasks[t].completed_at # None
        /\ tasks[t].error = None
        /\ tasks[t].current_iteration = 2

\* sequence s is the head of sequence u
Extends(u, s) == Len(u) >= Len(s) /\ SubSeq(u, 1, Len(s)) = s

\* C37: no step lowers current_iteration, and every step leaves the change
\* records and the test records as the head of the new lists; the iteration
\* numbers of the change records never decrease along the list, and no
\* record has an iteration number above current_iteration.
C37_HistoryGrows ==
    /\ [][\A t \in Created :
            /\ tasks'[t].current_iteration >= tasks[t].current_iteration
            /\ Extends(tasks'[t].changes, tasks[t].changes)
            /\ Extends(tasks'[t].test_results, tasks[t].test_results)]_vars
    /\ [](\A t \in Created :
            /\ \A i \in 1..Len(tasks[t].changes) :
                /\ tasks[t].changes[i].iteration <= tasks[t].current_iteration
                /\ i > 1 => tasks[t].changes[i - 1].iteration <= tasks[t].changes[i].iteration
            /\ \A i \in 1..Len(tasks[t].test_results) :
                tasks[t].test_results[i].iteration <= tasks[t].current_iteration)

\* the second iteration has appended its records after those of the first
C37_Witness ==
    \E t \in Created :
        /\ tasks[t].current_iteration = 2
        /\ Len(tasks[t].changes) >= 6
        /\ tasks[t].changes[1].iteration = 1
        /\ tasks[t].changes[Len(tasks[t].changes)].iteration = 2
        /\ Len(tasks[t].test_results) = 2

\* C38: whenever a call of health_check has returned, the probe process it
\* spawned is not running.
C38_ProbeReaped ==
    [][Len(hres') > Len(hres) => hproc'.state # "running"]_vars

\* the turn limits run_evolution gives its queries (evolve.py lines 65, 86,
\* 109, 129, 155)
TurnLimits == {3, 5, 10}

\* the command of request r with another turn limit
CommandWith(r, max_turns, output_format) ==
    _build_command(r.prompt, r.session_id, r.allowed_tools, max_turns, r.system_prompt,
                   r.working_directory, output_format, r.model)

=============================================================================
